---- MODULE Spec2Model ----
(***************************************************************************)
(* Model of sort-photos.py: the PhotoSorterApp navigation session (cursor,  *)
(* key and resize handlers, deferred timers), its video playback control   *)
(* (python-vlc handle, progress poll, pause, seek) and the transfer calls. *)
(* One Tk event loop runs the handlers one at a time, so every action is a *)
(* whole handler or a whole timer callback.                                *)
(***************************************************************************)
EXTENDS Integers, Sequences, FiniteSets, TLC

\* ------------------------------------------------------------------ bounds
\* Longest media sequence explored.
MaxFiles == 2
\* Length of a video, in scrub steps.
MaxSteps == 1
\* Deferred apply_seek callbacks that may be pending together.
MaxPendingSeeks == 1
\* Shutdown timers (after(3000, destroy)) that may be pending together.
MaxDestroyTimers == 2
\* Longest position and length, in seconds, a seek target is computed for.
MaxSeekSeconds == 64
\* Longest discovered list that is sorted.
MaxSortLen == 3
\* Deepest relative path of a transferred entry, in components.
MaxRelDepth == 3

\* ------------------------------------------------------- program constants
VIDEO_SCRUB_STEP_MS == 5000
\* Delay of the deferred apply_seek after a successful restart.
RestartSeekDelayMs == 150

\* Length of a video as the backend reports it once it is known.
MediaLenMs == MaxSteps * VIDEO_SCRUB_STEP_MS

\* Numbers of destination directories the session is constructed with.
DestCounts == {2, 28}

MediaKinds == {"Photo", "Video"}

\* ---------------------------------------------------------------- hotkeys
Digits == <<"1", "2", "3", "4", "5", "6", "7", "8", "9">>
Letters == <<"A", "B", "C", "D", "E", "F", "G", "H", "I", "J", "K", "L", "M",
             "N", "O", "P", "Q", "R", "S", "T", "U", "V", "W", "X", "Y", "Z">>

\* _generate_hotkey without the test against 'Z': the character after 'Z' is
\* handed out.
HotkeyPastZ(index) ==
    IF index < 9 THEN Digits[index + 1]
    ELSE IF index - 9 >= Len(Letters) THEN "["
    ELSE Letters[index - 9 + 1]

\* _generate_hotkey(index): digits for the first nine, then latin letters;
\* "ValueError" stands for the raised too-many-destinations error.
_generate_hotkey(index) ==
    IF index < 9 THEN Digits[index + 1]
    ELSE IF index - 9 >= Len(Letters) THEN "ValueError"
    ELSE Letters[index - 9 + 1]

\* str.upper() on the characters and key symbols the events carry.
Upper(s) ==
    CASE s = "q" -> "Q"
      [] s = "x" -> "X"
      [] s = "space" -> "SPACE"
      [] s = "Left" -> "LEFT"
      [] s = "Right" -> "RIGHT"
      [] OTHER -> s

\* Key events as Tk delivers them: <<event.char, event.keysym>>.
KeyEvents ==
    { <<"1", "1">>, <<"q", "q">>, <<"S", "S">>, <<"x", "x">>,
      <<" ", "space">>, <<"", "Left">>, <<"", "Right">> }

\* ------------------------------------------------------------------ state
VARIABLES
    photo_files,          \* the ordered media sequence: the kind of each entry
    numDest,              \* number of destinations given at construction
    vlc_available,        \* whether python-vlc was importable
    current_photo_index,  \* the cursor
    current_media_type,   \* "None", "Photo" or "Video"
    vlc_player,           \* the playback handle with its backend state
    video_status_job,     \* the poll timer the field refers to
    video_duration_ms,
    video_paused,
    orphanPlayers,        \* backend players started, never stopped, dropped
    orphanPolls,          \* pending poll timers no field refers to
    pendingSeeks,         \* pending after(delay, apply_seek) callbacks
    initTimer,            \* after(100, load_next_photo) still pending
    destroyTimers,        \* pending after(3000, destroy) callbacks
    destroyed,            \* master.destroy() has run
    transferCount,        \* number of copy/move attempts made so far
    lastTransfer,         \* the latest attempt: entry, destination, outcome
    calc                  \* a start-up or library computation: inputs, result

vars == <<photo_files, numDest, vlc_available, current_photo_index,
          current_media_type, vlc_player, video_status_job, video_duration_ms,
          video_paused, orphanPlayers, orphanPolls, pendingSeeks, initTimer,
          destroyTimers, destroyed, transferCount, lastTransfer, calc>>

\* The variables of the running session.
sessionVars == <<photo_files, numDest, vlc_available, current_photo_index,
                 current_media_type, vlc_player, video_status_job,
                 video_duration_ms, video_paused, orphanPlayers, orphanPolls,
                 pendingSeeks, initTimer, destroyTimers, destroyed,
                 transferCount, lastTransfer>>

\* No computation is being followed: the session itself is.
NoCalc == [op |-> "session"]

\* No transfer has been attempted yet.
NoTransfer == [entry |-> 0, dest |-> 0, ok |-> TRUE]

\* self.vlc_player is None.
NoPlayer == [state |-> "None", time |-> 0, length |-> 0]

\* Backend states in which a player has been started and not stopped.
LiveStates == {"Playing", "Paused", "Ended"}

\* The most destinations the hotkeys '1'..'9','A'..'Z' can serve.
MaxDestinations == 35

\* The destination hotkeys in assignment order, and the place of each in it.
Hotkeys == [i \in 1 .. MaxDestinations |-> _generate_hotkey(i - 1)]

HotkeyPlace == [k \in {Hotkeys[i] : i \in 1 .. MaxDestinations} |->
                   CHOOSE i \in 1 .. MaxDestinations : Hotkeys[i] = k]

\* key in self.key_to_destination
IsRoutingKey(key) ==
    /\ key \in DOMAIN HotkeyPlace
    /\ HotkeyPlace[key] <= numDest

\* self.key_to_destination[key]: the destination, numbered from 1.
key_to_destination(key) ==
    HotkeyPlace[key]

\* The mutable fields of the session, as one record the handlers transform.
St ==
    [current_photo_index |-> current_photo_index,
     current_media_type |-> current_media_type,
     vlc_player |-> vlc_player,
     video_status_job |-> video_status_job,
     video_duration_ms |-> video_duration_ms,
     video_paused |-> video_paused,
     orphanPlayers |-> orphanPlayers,
     orphanPolls |-> orphanPolls,
     pendingSeeks |-> pendingSeeks,
     initTimer |-> initTimer,
     destroyTimers |-> destroyTimers,
     destroyed |-> destroyed,
     transferCount |-> transferCount,
     lastTransfer |-> lastTransfer]

\* The handler's result becomes the next state of the session.
CommitSession(r) ==
    /\ Len(r.pendingSeeks) <= MaxPendingSeeks
    /\ r.destroyTimers <= MaxDestroyTimers
    /\ current_photo_index' = r.current_photo_index
    /\ current_media_type' = r.current_media_type
    /\ vlc_player' = r.vlc_player
    /\ video_status_job' = r.video_status_job
    /\ video_duration_ms' = r.video_duration_ms
    /\ video_paused' = r.video_paused
    /\ orphanPlayers' = r.orphanPlayers
    /\ orphanPolls' = r.orphanPolls
    /\ pendingSeeks' = r.pendingSeeks
    /\ initTimer' = r.initTimer
    /\ destroyTimers' = r.destroyTimers
    /\ destroyed' = r.destroyed
    /\ transferCount' = r.transferCount
    /\ lastTransfer' = r.lastTransfer
    /\ UNCHANGED <<photo_files, numDest, vlc_available>>

\* A handler of the session has run.
Commit(r) ==
    /\ CommitSession(r)
    /\ UNCHANGED calc

\* ----------------------------------------------------- playback control
\* Every deferred apply_seek still pending belonged to the session that is
\* being torn down (bookkeeping only: the callbacks themselves are untouched).
MarkStale(seeks) ==
    [i \in 1 .. Len(seeks) |-> [seeks[i] EXCEPT !.stale = TRUE]]

\* _stop_video_playback without the call of player.stop(): the handle is
\* dropped while its backend player keeps running.
StopDropsWithoutStopping(s) ==
    [s EXCEPT !.video_status_job = "None",
              !.vlc_player = NoPlayer,
              !.orphanPlayers = s.orphanPlayers +
                                (IF s.vlc_player.state \in LiveStates THEN 1 ELSE 0),
              !.video_duration_ms = 0,
              !.video_paused = FALSE,
              !.pendingSeeks = MarkStale(s.pendingSeeks)]

\* _stop_video_playback: cancel the poll, stop and drop the handle, reset.
_stop_video_playback(s) ==
    [s EXCEPT !.video_status_job = "None",
              !.vlc_player = NoPlayer,
              !.video_duration_ms = 0,
              !.video_paused = FALSE,
              !.pendingSeeks = MarkStale(s.pendingSeeks)]

\* _schedule_video_status_update: cancel the job the field names, schedule anew.
_schedule_video_status_update(s) ==
    [s EXCEPT !.video_status_job = "pending"]

\* _ensure_vlc_player: tear the old session down before a new player is made.
_ensure_vlc_player(s) ==
    _stop_video_playback(s)

\* _play_video(path): started is the outcome of player.play() (FALSE: -1, or
\* no player could be made).  The caller has checked vlc_available.
_play_video(s, started) ==
    LET e == _ensure_vlc_player(s)
        dropped == IF e.vlc_player.state \in LiveStates THEN 1 ELSE 0
    IN  IF started
        THEN _schedule_video_status_update(
                 [e EXCEPT !.vlc_player =
                               [state |-> "Playing", time |-> 0, length |-> 0],
                           !.orphanPlayers = e.orphanPlayers + dropped,
                           !.video_paused = FALSE,
                           !.video_duration_ms = 0])
        ELSE _stop_video_playback(e)

\* _update_video_status without its last line: the duration is recorded and
\* no further poll is scheduled.
UpdateStatusWithoutReschedule(s) ==
    IF s.vlc_player.state = "None" THEN s
    ELSE LET total == s.vlc_player.length
         IN  [s EXCEPT !.video_duration_ms =
                           IF total > 0 THEN total ELSE s.video_duration_ms]

\* _update_video_status, the body of the progress poll.
_update_video_status(s) ==
    IF s.vlc_player.state = "None" THEN s
    ELSE LET total == s.vlc_player.length
         IN  _schedule_video_status_update(
                 [s EXCEPT !.video_duration_ms =
                               IF total > 0 THEN total ELSE s.video_duration_ms])

Max(a, b) == IF a >= b THEN a ELSE b
Min(a, b) == IF a <= b THEN a ELSE b

\* Backend calls on a player record.  set_time acts on a playing or paused
\* player only, and the position never passes the end of the media.
BackendSetTime(p, t) ==
    IF p.state \in {"Playing", "Paused"}
    THEN [p EXCEPT !.time = Min(t, MediaLenMs)]
    ELSE p

BackendSetPause(p) ==
    IF p.state = "Playing" THEN [p EXCEPT !.state = "Paused"] ELSE p

BackendPause(p) ==
    CASE p.state = "Playing" -> [p EXCEPT !.state = "Paused"]
      [] p.state = "Paused" -> [p EXCEPT !.state = "Playing"]
      [] OTHER -> p

BackendStop(p) ==
    [state |-> "Stopped", time |-> 0, length |-> 0]

BackendPlay(p, ok) ==
    IF ok THEN [state |-> "Playing", time |-> 0, length |-> 0] ELSE p

\* The target without the clamping: current + delta as it is.
SeekTargetUnclamped(current, length, delta_ms) ==
    current + delta_ms

\* The target _seek_video computes from get_time(), get_length() and delta.
SeekTarget(current, length, delta_ms) ==
    IF length > 0 THEN Max(0, Min(current + delta_ms, length))
    ELSE Max(0, current + delta_ms)

\* apply_seek, the closure of _seek_video, run now or from its timer.
apply_seek(s, target) ==
    IF s.vlc_player.state = "None" THEN s
    ELSE LET p == BackendSetTime(s.vlc_player, target)
         IN  [s EXCEPT !.vlc_player =
                           IF s.video_paused THEN BackendSetPause(p) ELSE p]

\* _seek_video(delta_ms); playOk is the outcome of player.play() on restart.
_seek_video(s, delta_ms, playOk) ==
    IF s.vlc_player.state = "None" THEN s
    ELSE LET player == s.vlc_player
             length == player.length
             target == SeekTarget(player.time, length, delta_ms)
             restart_needed == /\ length # 0
                               /\ target < length
                               /\ player.state \in {"Ended", "Stopped"}
         IN  IF restart_needed
             THEN [s EXCEPT !.vlc_player = BackendPlay(BackendStop(player), playOk),
                            !.video_paused = FALSE,
                            !.pendingSeeks =
                                Append(s.pendingSeeks,
                                       [target |-> target,
                                        delay |-> IF playOk THEN RestartSeekDelayMs ELSE 0,
                                        stale |-> FALSE,
                                        pausedBefore |-> s.video_paused])]
             ELSE apply_seek(s, target)

\* _toggle_video_pause without the _vlc_ready() test: the flag is flipped
\* whether or not there is a player.
TogglePauseWithoutReadyTest(s) ==
    [s EXCEPT !.vlc_player = BackendPause(s.vlc_player),
              !.video_paused = ~s.video_paused]

\* _toggle_video_pause
_toggle_video_pause(s) ==
    IF s.vlc_player.state = "None" THEN s
    ELSE [s EXCEPT !.vlc_player = BackendPause(s.vlc_player),
                   !.video_paused = ~s.video_paused]

\* ------------------------------------------------------------ navigation
\* Outcome of showing one entry inside load_next_photo's try block:
\*   "ok"    the preview is shown, or the video started;
\*   "fail"  the failure is absorbed: placeholder shown, or play() gave -1;
\*   raised  an exception reaches the except clause, which loads the next.
\* load_next_photo without the after(3000, destroy) of its last branch: at
\* the end of the sequence only the message is shown.
RECURSIVE LoadNextWithoutShutdown(_, _, _)
LoadNextWithoutShutdown(s, raises, outcome) ==
    LET t == _stop_video_playback(s)
        u == [t EXCEPT !.current_photo_index = t.current_photo_index + 1]
    IN  IF u.current_photo_index < Len(photo_files)
        THEN LET media_kind == photo_files[u.current_photo_index + 1]
                 v == [u EXCEPT !.current_media_type = media_kind]
             IN  IF raises > 0 THEN LoadNextWithoutShutdown(v, raises - 1, outcome)
                 ELSE IF media_kind = "Video" /\ vlc_available
                      THEN _play_video(v, outcome = "ok")
                      ELSE v
        ELSE u

\* load_next_photo(s, raises, outcome): the first `raises` entries it tries
\* raise, the one after them ends with `outcome`.
RECURSIVE load_next_photo(_, _, _)
load_next_photo(s, raises, outcome) ==
    LET t == _stop_video_playback(s)
        u == [t EXCEPT !.current_photo_index = t.current_photo_index + 1]
    IN  IF u.current_photo_index < Len(photo_files)
        THEN LET media_kind == photo_files[u.current_photo_index + 1]
                 v == [u EXCEPT !.current_media_type = media_kind]
             IN  IF raises > 0 THEN load_next_photo(v, raises - 1, outcome)
                 ELSE IF media_kind = "Video" /\ vlc_available
                      THEN _play_video(v, outcome = "ok")
                      ELSE v
        ELSE IF Len(photo_files) = 0 THEN u
             ELSE [u EXCEPT !.destroyTimers = u.destroyTimers + 1]

\* _move_photo(source_path, destination_base_dir): one copy/move attempt;
\* ok is whether it succeeded (an error is caught and reported).
_move_photo(s, entry, dest, ok) ==
    [s EXCEPT !.transferCount = s.transferCount + 1,
              !.lastTransfer = [entry |-> entry, dest |-> dest, ok |-> ok]]

\* master.destroy(): the window and every pending callback are gone.
Destroy(s) ==
    [s EXCEPT !.destroyed = TRUE,
              !.initTimer = FALSE,
              !.destroyTimers = 0,
              !.pendingSeeks = <<>>,
              !.orphanPolls = 0]

\* The entry photo_files[current_photo_index] names, numbered from 1; Python
\* reads index -1 as the last entry.
CurrentEntry(s) ==
    IF s.current_photo_index < 0
    THEN Len(photo_files) + 1 + s.current_photo_index
    ELSE s.current_photo_index + 1

\* The branch of on_key_press an event takes.
KeyBranch(s, char, keysym) ==
    LET key == IF char # "" THEN Upper(char) ELSE ""
        ks == Upper(keysym)
        is_video == s.current_media_type = "Video"
    IN  CASE s.current_photo_index >= Len(photo_files) -> "ignored"
          [] CurrentEntry(s) \notin 1 .. Len(photo_files) -> "IndexError"
          [] IsRoutingKey(key) -> "route"
          [] key = "S" -> "skip"
          [] key = "Q" -> "quit"
          [] ks = "SPACE" /\ is_video -> "pause"
          [] ks = "LEFT" /\ is_video -> "seek_left"
          [] ks = "RIGHT" /\ is_video -> "seek_right"
          [] OTHER -> "unknown"

\* A routing key: one transfer, then the next entry.
KeyRoute(s, key, ok, raises, outcome) ==
    load_next_photo(
        _move_photo(s, CurrentEntry(s), key_to_destination(key), ok),
        raises, outcome)

\* The skip key.
KeySkip(s, raises, outcome) ==
    load_next_photo(_stop_video_playback(s), raises, outcome)

\* The quit key.
KeyQuit(s) ==
    Destroy(_stop_video_playback(s))

\* The unrecognized-key branch without its return: the handler goes on to
\* load the next entry.
KeyUnknownFallsThrough(s) ==
    load_next_photo(s, 0, "ok")

\* Any other key: only the status text changes.
KeyUnknown(s) ==
    s

\* on_key_press(event)
on_key_press(s, char, keysym, ok, raises, outcome, playOk) ==
    LET branch == KeyBranch(s, char, keysym)
    IN  CASE branch = "route" -> KeyRoute(s, Upper(char), ok, raises, outcome)
          [] branch = "skip" -> KeySkip(s, raises, outcome)
          [] branch = "quit" -> KeyQuit(s)
          [] branch = "pause" -> _toggle_video_pause(s)
          [] branch = "seek_left" -> _seek_video(s, -VIDEO_SCRUB_STEP_MS, playOk)
          [] branch = "seek_right" -> _seek_video(s, VIDEO_SCRUB_STEP_MS, playOk)
          [] branch = "unknown" -> KeyUnknown(s)
          [] OTHER -> s

\* on_resize with the decrement and without the reload that undoes it.
ResizeWithoutReload(s, isMaster, raises, outcome) ==
    IF isMaster /\ s.current_photo_index >= 0
    THEN [s EXCEPT !.current_photo_index = s.current_photo_index - 1]
    ELSE s

\* on_resize(event); isMaster is event.widget == self.master.
on_resize(s, isMaster, raises, outcome) ==
    IF isMaster /\ s.current_photo_index >= 0
    THEN load_next_photo(
             [s EXCEPT !.current_photo_index = s.current_photo_index - 1],
             raises, outcome)
    ELSE s

\* A pending apply_seek may fire once none scheduled before it is due earlier.
CanFire(seeks, i) ==
    \A j \in 1 .. i - 1 : seeks[j].delay > seeks[i].delay

RemoveAt(seq, i) ==
    SubSeq(seq, 1, i - 1) \o SubSeq(seq, i + 1, Len(seq))

\* ---------------------------------------------------------------- actions
Outcomes == {"ok", "fail"}

\* What the environment decides while a handler runs: whether the transfer
\* succeeds (ok), how many entries raise while loading (raises), how the entry
\* then shown ends (outcome), whether play() succeeds on a restart (playOk).
NoChoice == [ok |-> TRUE, raises |-> 0, outcome |-> "ok", playOk |-> TRUE]

\* Loading starts at index `from`; the outcome matters for a video the
\* backend is asked to play.
LoadChoices(from) ==
    {[NoChoice EXCEPT !.raises = r, !.outcome = o] :
        r \in 0 .. Max(0, Len(photo_files) - from), o \in Outcomes} \ 
    {c \in [ok : {TRUE}, raises : 0 .. Len(photo_files), outcome : {"fail"},
            playOk : {TRUE}] :
        LET last == from + c.raises
        IN  ~(/\ vlc_available
              /\ last \in 0 .. Len(photo_files) - 1
              /\ photo_files[last + 1] = "Video")}

Choices(s, branch) ==
    CASE branch = "route" ->
             {[c EXCEPT !.ok = k] :
                 c \in LoadChoices(s.current_photo_index + 1), k \in BOOLEAN}
      [] branch = "skip" -> LoadChoices(s.current_photo_index + 1)
      [] branch \in {"seek_left", "seek_right"} ->
             {[NoChoice EXCEPT !.playOk = k] : k \in BOOLEAN}
      [] OTHER -> {NoChoice}

\* The session as __init__ leaves it.
SessionInit ==
    /\ photo_files \in UNION {[1 .. n -> MediaKinds] : n \in 0 .. MaxFiles}
    /\ numDest \in DestCounts
    /\ vlc_available \in BOOLEAN
    /\ current_photo_index = -1
    /\ current_media_type = "None"
    /\ vlc_player = NoPlayer
    /\ video_status_job = "None"
    /\ video_duration_ms = 0
    /\ video_paused = FALSE
    /\ orphanPlayers = 0
    /\ orphanPolls = 0
    /\ pendingSeeks = <<>>
    /\ initTimer = TRUE
    /\ destroyTimers = 0
    /\ destroyed = FALSE
    /\ transferCount = 0
    /\ lastTransfer = NoTransfer

Init ==
    /\ SessionInit
    /\ calc = NoCalc

\* The deferred after(100, load_next_photo).
InitialLoad ==
    /\ ~destroyed
    /\ initTimer
    /\ \E c \in LoadChoices(current_photo_index + 1) :
           Commit(load_next_photo([St EXCEPT !.initTimer = FALSE],
                                  c.raises, c.outcome))

\* A <Key> event.
OnKeyPress ==
    /\ ~destroyed
    /\ \E ev \in KeyEvents :
           LET branch == KeyBranch(St, ev[1], ev[2])
           IN  \E c \in Choices(St, branch) :
                   Commit(on_key_press(St, ev[1], ev[2], c.ok, c.raises,
                                       c.outcome, c.playOk))

\* A <Configure> event.
OnResize ==
    /\ ~destroyed
    /\ \E isMaster \in BOOLEAN :
           \E c \in IF isMaster /\ current_photo_index >= 0
                     THEN LoadChoices(current_photo_index) ELSE {NoChoice} :
               Commit(on_resize(St, isMaster, c.raises, c.outcome))

\* A pending progress poll fires.
PollTimer ==
    /\ ~destroyed
    /\ \/ /\ video_status_job = "pending"
          /\ Commit(_update_video_status([St EXCEPT !.video_status_job = "fired"]))
       \/ /\ orphanPolls > 0
          /\ Commit(_update_video_status([St EXCEPT !.orphanPolls = orphanPolls - 1]))

\* A pending deferred apply_seek fires.
SeekTimer ==
    /\ ~destroyed
    /\ \E i \in 1 .. Len(pendingSeeks) :
           /\ CanFire(pendingSeeks, i)
           /\ Commit(apply_seek([St EXCEPT !.pendingSeeks = RemoveAt(pendingSeeks, i)],
                                pendingSeeks[i].target))

\* A pending after(3000, master.destroy) fires.
DestroyTimer ==
    /\ ~destroyed
    /\ destroyTimers > 0
    /\ Commit(Destroy(St))

\* The backend learns the length of the media it plays.
BackendReportLength ==
    /\ ~destroyed
    /\ vlc_player.state \in {"Playing", "Paused"}
    /\ vlc_player.length = 0
    /\ Commit([St EXCEPT !.vlc_player.length = MediaLenMs])

\* Playback advances.
BackendTick ==
    /\ ~destroyed
    /\ vlc_player.state = "Playing"
    /\ vlc_player.time < MediaLenMs
    /\ Commit([St EXCEPT !.vlc_player.time =
                             Min(vlc_player.time + VIDEO_SCRUB_STEP_MS, MediaLenMs)])

\* Playback reaches the end of the media.
BackendEnd ==
    /\ ~destroyed
    /\ vlc_player.state = "Playing"
    /\ vlc_player.time = MediaLenMs
    /\ Commit([St EXCEPT !.vlc_player.state = "Ended",
                         !.vlc_player.length = MediaLenMs])

Next ==
    \/ InitialLoad
    \/ OnResize
    \/ OnKeyPress
    \/ PollTimer
    \/ SeekTimer
    \/ DestroyTimer
    \/ BackendReportLength
    \/ BackendTick
    \/ BackendEnd

Spec == Init /\ [][Next]_vars

\* The Tk event loop runs a timer callback once it is due: a pending
\* after(3000, master.destroy) does fire.
LiveSpec == Spec /\ WF_vars(DestroyTimer)

\* ----------------------------------------------------------------- types
TypeOK ==
    /\ current_media_type \in MediaKinds \cup {"None"}
    /\ vlc_player.state \in {"None", "Playing", "Paused", "Ended", "Stopped"}
    /\ vlc_player.time \in 0 .. MediaLenMs
    /\ vlc_player.length \in {0, MediaLenMs}
    /\ video_status_job \in {"None", "pending", "fired"}
    /\ video_duration_ms \in {0, MediaLenMs}
    /\ video_paused \in BOOLEAN
    /\ transferCount \in 0 .. Len(photo_files) + 1
    /\ destroyed \in BOOLEAN

\* ------------------------------------------------- computations followed
\* The specifications below follow one computation of the program at a time
\* (a seek target, a sort, the --sort argument, the hotkey assignment, one
\* transfer) over every input within the bounds; the session stands still.
SessionIdle ==
    /\ SessionInit
    /\ photo_files = <<>>
    /\ numDest = 2
    /\ ~vlc_available

\* ------------------------------------------------------------ seek target
\* Positions get_time() and lengths get_length() may return, in ms: -1 is
\* the backend's error value, 0 an unknown length.
SeekTimes == {-1} \cup {1000 * k : k \in 0 .. MaxSeekSeconds}

SeekInit ==
    /\ SessionIdle
    /\ calc \in [op : {"seek"}, current : SeekTimes, length : SeekTimes,
                 delta_ms : {-VIDEO_SCRUB_STEP_MS, VIDEO_SCRUB_STEP_MS},
                 target : {0}, done : {FALSE}]

\* _seek_video computes the target it hands to set_time.
SeekCompute ==
    /\ calc.op = "seek"
    /\ ~calc.done
    /\ calc' = [calc EXCEPT !.target = SeekTarget(calc.current, calc.length,
                                                  calc.delta_ms),
                            !.done = TRUE]
    /\ UNCHANGED sessionVars

SeekNext ==
    SeekCompute

SeekSpec == SeekInit /\ [][SeekNext]_vars

\* ------------------------------------------------------------ file names
\* A name is the sequence of its characters.  "sup2" stands for the single
\* character U+00B2 (superscript two): str.isdigit() is true of it, the
\* pattern \d does not match it, and int() rejects it.
DecimalChars == <<"0", "1", "2", "3", "4", "5", "6", "7", "8", "9">>

LowerLetters == <<"a", "b", "c", "d", "e", "f", "g", "h", "i", "j", "k", "l",
                  "m", "n", "o", "p", "q", "r", "s", "t", "u", "v", "w", "x",
                  "y", "z">>

\* The Cyrillic letters of the display labels, named by code point: the
\* capitals, and the small letter str.lower() gives for each.
CyrillicUpper ==
    <<"U+0406", "U+0410", "U+0411", "U+0412", "U+0414", "U+0415", "U+0417",
    "U+0418", "U+041B", "U+041C", "U+041D", "U+041E", "U+0420", "U+0421",
    "U+0422", "U+0423", "U+0428", "U+042C", "U+042E", "U+042F">>

CyrillicLower ==
    <<"U+0456", "U+0430", "U+0431", "U+0432", "U+0434", "U+0435", "U+0437",
    "U+0438", "U+043B", "U+043C", "U+043D", "U+043E", "U+0440", "U+0441",
    "U+0442", "U+0443", "U+0448", "U+044C", "U+044E", "U+044F">>

\* The characters in code-point order.
CharOrder == <<" ", "!", "(", ")", ",", "-", ".">> \o DecimalChars \o
             <<"=">> \o Letters \o <<"_">> \o LowerLetters \o <<"sup2">> \o
             CyrillicUpper \o CyrillicLower \o <<"U+2192">>

Ord(c) == CHOOSE i \in 1 .. Len(CharOrder) : CharOrder[i] = c

\* The pattern \d on one character.
IsDecimal(c) == \E i \in 1 .. Len(DecimalChars) : DecimalChars[i] = c

DigitValue(c) == (CHOOSE i \in 1 .. Len(DecimalChars) : DecimalChars[i] = c) - 1

\* str.isdigit() on one character.
IsDigitChar(c) == IsDecimal(c) \/ c = "sup2"

\* str.lower()
LowerChar(c) ==
    IF \E i \in 1 .. Len(Letters) : Letters[i] = c
    THEN LowerLetters[CHOOSE i \in 1 .. Len(Letters) : Letters[i] = c]
    ELSE IF \E i \in 1 .. Len(CyrillicUpper) : CyrillicUpper[i] = c
    THEN CyrillicLower[CHOOSE i \in 1 .. Len(CyrillicUpper) : CyrillicUpper[i] = c]
    ELSE c

Lower(text) == [i \in 1 .. Len(text) |-> LowerChar(text[i])]

\* str.isdigit(): not empty, every character a digit.
IsDigitStr(text) ==
    /\ Len(text) > 0
    /\ \A i \in 1 .. Len(text) : IsDigitChar(text[i])

\* int(text) for a text int() accepts.
RECURSIVE IntOf(_)
IntOf(text) ==
    IF text = <<>> THEN 0
    ELSE 10 * IntOf(SubSeq(text, 1, Len(text) - 1)) + DigitValue(text[Len(text)])

\* Comparison of two str values: "lt", "eq" or "gt".
RECURSIVE StrCmp(_, _)
StrCmp(a, b) ==
    IF a = <<>> THEN (IF b = <<>> THEN "eq" ELSE "lt")
    ELSE IF b = <<>> THEN "gt"
    ELSE IF Ord(a[1]) < Ord(b[1]) THEN "lt"
    ELSE IF Ord(a[1]) > Ord(b[1]) THEN "gt"
    ELSE StrCmp(Tail(a), Tail(b))

\* ------------------------------------------------------------------ sort
\* SORT_MODE_VARIANTS: key, sort type, stat attribute, direction.
SORT_MODE_INFO ==
    [m \in {"name", "name-rev", "natural", "natural-rev", "created",
            "created-rev", "modified", "modified-rev", "size", "size-rev"} |->
        CASE m = "name" -> [type |-> "alpha", attribute |-> "", reverse |-> FALSE]
          [] m = "name-rev" -> [type |-> "alpha", attribute |-> "", reverse |-> TRUE]
          [] m = "natural" -> [type |-> "natural", attribute |-> "", reverse |-> FALSE]
          [] m = "natural-rev" -> [type |-> "natural", attribute |-> "", reverse |-> TRUE]
          [] m = "created" -> [type |-> "stat", attribute |-> "st_ctime", reverse |-> FALSE]
          [] m = "created-rev" -> [type |-> "stat", attribute |-> "st_ctime", reverse |-> TRUE]
          [] m = "modified" -> [type |-> "stat", attribute |-> "st_mtime", reverse |-> FALSE]
          [] m = "modified-rev" -> [type |-> "stat", attribute |-> "st_mtime", reverse |-> TRUE]
          [] m = "size" -> [type |-> "stat", attribute |-> "st_size", reverse |-> FALSE]
          [] m = "size-rev" -> [type |-> "stat", attribute |-> "st_size", reverse |-> TRUE]]

SortModes == DOMAIN SORT_MODE_INFO

\* The longest prefix of text made of characters \d matches (decimal) or of
\* characters it does not match.
RECURSIVE LeadingRun(_, _)
LeadingRun(text, decimal) ==
    IF text = <<>> \/ IsDecimal(text[1]) # decimal THEN <<>>
    ELSE <<text[1]>> \o LeadingRun(Tail(text), decimal)

\* NATURAL_CHUNK_RE.split(text), the pattern being (\d+): the chunks between
\* the digit runs alternate with the digit runs, the first and the last chunk
\* being non-digit ones, empty when the text starts or ends with a digit.
RECURSIVE NATURAL_CHUNK_RE_split(_)
NATURAL_CHUNK_RE_split(text) ==
    LET head == LeadingRun(text, FALSE)
        rest == SubSeq(text, Len(head) + 1, Len(text))
    IN  IF rest = <<>> THEN <<head>>
        ELSE LET num == LeadingRun(rest, TRUE)
             IN  <<head, num>> \o
                 NATURAL_CHUNK_RE_split(SubSeq(rest, Len(num) + 1, Len(rest)))

\* One element of the natural key: int(chunk) if chunk.isdigit() else
\* chunk.lower(); int() raises ValueError on a digit that is not decimal.
NaturalPart(chunk) ==
    IF IsDigitStr(chunk)
    THEN IF \A i \in 1 .. Len(chunk) : IsDecimal(chunk[i])
         THEN [kind |-> "int", n |-> IntOf(chunk), s |-> <<>>]
         ELSE [kind |-> "ValueError", n |-> 0, s |-> chunk]
    ELSE [kind |-> "str", n |-> 0, s |-> Lower(chunk)]

\* _natural_key(text): the list of the parts.
_natural_key(text) ==
    LET chunks == NATURAL_CHUNK_RE_split(text)
    IN  [i \in 1 .. Len(chunks) |-> NaturalPart(chunks[i])]

\* Comparison of two list keys as Python compares lists: "lt", "eq", "gt", or
\* "TypeError" when an int meets a str.
RECURSIVE ListCmp(_, _)
ListCmp(a, b) ==
    IF a = <<>> THEN (IF b = <<>> THEN "eq" ELSE "lt")
    ELSE IF b = <<>> THEN "gt"
    ELSE IF a[1].kind # b[1].kind THEN "TypeError"
    ELSE LET c == IF a[1].kind = "int"
                  THEN (IF a[1].n < b[1].n THEN "lt"
                        ELSE IF a[1].n > b[1].n THEN "gt" ELSE "eq")
                  ELSE StrCmp(a[1].s, b[1].s)
         IN  IF c = "eq" THEN ListCmp(Tail(a), Tail(b)) ELSE c

\* _get_stat_value(path, attribute)
_get_stat_value(file, attribute) ==
    CASE attribute = "st_ctime" -> file.st_ctime
      [] attribute = "st_mtime" -> file.st_mtime
      [] OTHER -> file.st_size

\* key_func(path) of _sort_photo_list for a mode; os.path.basename(path) is
\* the name.
key_func(mode, file) ==
    LET config == SORT_MODE_INFO[mode]
    IN  CASE config.type = "natural" ->
                 [kind |-> "list", list |-> _natural_key(file.name)]
          [] config.type = "stat" ->
                 [kind |-> "list",
                  list |-> <<[kind |-> "int",
                              n |-> _get_stat_value(file, config.attribute),
                              s |-> <<>>]>>]
          [] OTHER ->
                 [kind |-> "list",
                  list |-> <<[kind |-> "str", n |-> 0, s |-> Lower(file.name)]>>]

\* Computing the key raises.
KeyRaises(mode, file) ==
    \E i \in 1 .. Len(key_func(mode, file).list) :
        key_func(mode, file).list[i].kind = "ValueError"

KeyCmp(mode, f, g) ==
    ListCmp(key_func(mode, f).list, key_func(mode, g).list)

Reverse(s) == [i \in 1 .. Len(s) |-> s[Len(s) + 1 - i]]

\* A stable ascending sort: each entry goes before the first one already
\* placed whose key is greater.
RECURSIVE InsertByKey(_, _, _)
InsertByKey(mode, placed, f) ==
    IF placed = <<>> THEN <<f>>
    ELSE IF KeyCmp(mode, f, placed[1]) = "lt" THEN <<f>> \o placed
    ELSE <<placed[1]>> \o InsertByKey(mode, Tail(placed), f)

RECURSIVE StableSort(_, _)
StableSort(mode, files) ==
    IF files = <<>> THEN <<>>
    ELSE InsertByKey(mode, StableSort(mode, SubSeq(files, 1, Len(files) - 1)),
                     files[Len(files)])

\* sorted(files, key=key_func, reverse=reverse): with reverse the list is
\* reversed, sorted and reversed again, which keeps equal keys in order.
sorted(mode, files, reverse) ==
    IF reverse THEN Reverse(StableSort(mode, Reverse(files)))
    ELSE StableSort(mode, files)

\* _sort_photo_list(files) under sort_mode: the sorted list, or the error
\* raised while the keys are computed.
_sort_photo_list(mode, files) ==
    IF \E i \in 1 .. Len(files) : KeyRaises(mode, files[i])
    THEN [raised |-> TRUE, files |-> <<>>]
    ELSE [raised |-> FALSE,
          files |-> sorted(mode, files, SORT_MODE_INFO[mode].reverse)]

\* Files a discovery may find: the directory below the source root, the
\* base name, and what os.stat reports.
SortPool ==
    {
      [dir |-> "a", name |-> <<"i", "m", "g", "2", ".", "j", "p", "g">>,
       st_ctime |-> 1, st_mtime |-> 2, st_size |-> 1],
      [dir |-> "a", name |-> <<"i", "m", "g", "1", "0", ".", "j", "p", "g">>,
       st_ctime |-> 2, st_mtime |-> 1, st_size |-> 1],
      [dir |-> "a", name |-> <<"i", "m", "g", "1", ".", "j", "p", "g">>,
       st_ctime |-> 1, st_mtime |-> 1, st_size |-> 2],
      [dir |-> "b", name |-> <<"I", "M", "G", "1", ".", "j", "p", "g">>,
       st_ctime |-> 2, st_mtime |-> 2, st_size |-> 2],
      [dir |-> "a", name |-> <<"i", "m", "g", "0", "1", ".", "j", "p", "g">>,
       st_ctime |-> 1, st_mtime |-> 2, st_size |-> 2],
      [dir |-> "a", name |-> <<"1", "a", ".", "j", "p", "g">>,
       st_ctime |-> 2, st_mtime |-> 1, st_size |-> 2],
      [dir |-> "a", name |-> <<"1", "sup2", "3", ".", "j", "p", "g">>,
       st_ctime |-> 1, st_mtime |-> 1, st_size |-> 1]
    }

\* Every discovery order of up to n distinct files of the pool.
DiscoveredLists(n) ==
    {s \in UNION {[1 .. k -> SortPool] : k \in 0 .. n} :
        \A i, j \in 1 .. Len(s) : i # j => s[i] # s[j]}

SortInit ==
    /\ SessionIdle
    /\ \E files \in DiscoveredLists(MaxSortLen), mode \in SortModes :
           calc = [op |-> "sort", files |-> files, mode |-> mode,
                   sorted_files |-> <<>>, raised |-> FALSE, done |-> FALSE]

\* _get_all_media_files hands the discovered list to _sort_photo_list.
SortRun ==
    /\ calc.op = "sort"
    /\ ~calc.done
    /\ LET r == _sort_photo_list(calc.mode, calc.files)
       IN  calc' = [calc EXCEPT !.sorted_files = r.files,
                                !.raised = r.raised,
                                !.done = TRUE]
    /\ UNCHANGED sessionVars

SortNext ==
    SortRun

SortSpec == SortInit /\ [][SortNext]_vars

\* ------------------------------------------------------- the --sort value
\* SORT_MODE_VARIANTS: the key of each mode, the key as text, its label.
SORT_MODE_VARIANTS ==
    <<
      [key |-> "name",
       text |-> <<"n", "a", "m", "e">>,
       label |-> <<"U+0417", "U+0430", " ", "U+043D", "U+0430", "U+0437",
                "U+0432", "U+043E", "U+044E", " ", "(", "U+0410", "-",
                "U+042F", ")">>],
      [key |-> "name-rev",
       text |-> <<"n", "a", "m", "e", "-", "r", "e", "v">>,
       label |-> <<"U+0417", "U+0430", " ", "U+043D", "U+0430", "U+0437",
                "U+0432", "U+043E", "U+044E", " ", "(", "U+042F", "-",
                "U+0410", ")">>],
      [key |-> "natural",
       text |-> <<"n", "a", "t", "u", "r", "a", "l">>,
       label |-> <<"U+041D", "U+0430", "U+0442", "U+0443", "U+0440",
                "U+0430", "U+043B", "U+044C", "U+043D", "U+0435", " ",
                "U+0441", "U+043E", "U+0440", "U+0442", "U+0443", "U+0432",
                "U+0430", "U+043D", "U+043D", "U+044F", " ", "(", "1", ",",
                "2", ",", "1", "0", ")">>],
      [key |-> "natural-rev",
       text |-> <<"n", "a", "t", "u", "r", "a", "l", "-", "r", "e", "v">>,
       label |-> <<"U+041D", "U+0430", "U+0442", "U+0443", "U+0440",
                "U+0430", "U+043B", "U+044C", "U+043D", "U+0435", " ",
                "U+0441", "U+043E", "U+0440", "U+0442", "U+0443", "U+0432",
                "U+0430", "U+043D", "U+043D", "U+044F", " ", "(", "1", "0",
                ",", "2", ",", "1", ")">>],
      [key |-> "created",
       text |-> <<"c", "r", "e", "a", "t", "e", "d">>,
       label |-> <<"U+0417", "U+0430", " ", "U+0434", "U+0430", "U+0442",
                "U+043E", "U+044E", " ", "U+0441", "U+0442", "U+0432",
                "U+043E", "U+0440", "U+0435", "U+043D", "U+043D", "U+044F",
                " ", "(", "U+0441", "U+0442", "U+0430", "U+0440", "U+0456",
                "U+2192", "U+043D", "U+043E", "U+0432", "U+0456", ")">>],
      [key |-> "created-rev",
       text |-> <<"c", "r", "e", "a", "t", "e", "d", "-", "r", "e", "v">>,
       label |-> <<"U+0417", "U+0430", " ", "U+0434", "U+0430", "U+0442",
                "U+043E", "U+044E", " ", "U+0441", "U+0442", "U+0432",
                "U+043E", "U+0440", "U+0435", "U+043D", "U+043D", "U+044F",
                " ", "(", "U+043D", "U+043E", "U+0432", "U+0456", "U+2192",
                "U+0441", "U+0442", "U+0430", "U+0440", "U+0456", ")">>],
      [key |-> "modified",
       text |-> <<"m", "o", "d", "i", "f", "i", "e", "d">>,
       label |-> <<"U+0417", "U+0430", " ", "U+0434", "U+0430", "U+0442",
                "U+043E", "U+044E", " ", "U+0437", "U+043C", "U+0456",
                "U+043D", "U+0438", " ", "(", "U+0441", "U+0442", "U+0430",
                "U+0440", "U+0456", "U+2192", "U+043D", "U+043E", "U+0432",
                "U+0456", ")">>],
      [key |-> "modified-rev",
       text |-> <<"m", "o", "d", "i", "f", "i", "e", "d", "-", "r", "e",
               "v">>,
       label |-> <<"U+0417", "U+0430", " ", "U+0434", "U+0430", "U+0442",
                "U+043E", "U+044E", " ", "U+0437", "U+043C", "U+0456",
                "U+043D", "U+0438", " ", "(", "U+043D", "U+043E", "U+0432",
                "U+0456", "U+2192", "U+0441", "U+0442", "U+0430", "U+0440",
                "U+0456", ")">>],
      [key |-> "size",
       text |-> <<"s", "i", "z", "e">>,
       label |-> <<"U+0417", "U+0430", " ", "U+0440", "U+043E", "U+0437",
                "U+043C", "U+0456", "U+0440", "U+043E", "U+043C", " ", "(",
                "U+043C", "U+0435", "U+043D", "U+0448", "U+0456", "U+2192",
                "U+0431", "U+0456", "U+043B", "U+044C", "U+0448", "U+0456",
                ")">>],
      [key |-> "size-rev",
       text |-> <<"s", "i", "z", "e", "-", "r", "e", "v">>,
       label |-> <<"U+0417", "U+0430", " ", "U+0440", "U+043E", "U+0437",
                "U+043C", "U+0456", "U+0440", "U+043E", "U+043C", " ", "(",
                "U+0431", "U+0456", "U+043B", "U+044C", "U+0448", "U+0456",
                "U+2192", "U+043C", "U+0435", "U+043D", "U+0448", "U+0456",
                ")">>]
    >>

\* The class [a-z0-9] on one character.
IsLowerAlnum(c) ==
    \/ \E i \in 1 .. Len(LowerLetters) : LowerLetters[i] = c
    \/ IsDecimal(c)

\* _normalize_sort_mode(value): re.sub(r"[^a-z0-9]", "", value.lower())
_normalize_sort_mode(value) ==
    SelectSeq(Lower(value), IsLowerAlnum)

\* d[k] = x on a dict
DictPut(d, k, x) ==
    [e \in DOMAIN d \cup {k} |-> IF e = k THEN x ELSE d[e]]

\* SORT_MODE_LOOKUP after the first n rounds of the loop that fills it: each
\* round stores the mode under its normalized key, then under its normalized
\* label.
RECURSIVE LookupAfter(_)
LookupAfter(n) ==
    IF n = 0 THEN <<>>
    ELSE LET v == SORT_MODE_VARIANTS[n]
         IN  DictPut(DictPut(LookupAfter(n - 1),
                             _normalize_sort_mode(v.text), v.key),
                     _normalize_sort_mode(v.label), v.key)

SORT_MODE_LOOKUP == LookupAfter(Len(SORT_MODE_VARIANTS))

\* The --sort branch of the argument loop.  form is "separate" for
\* `--sort value` and "equals" for `--sort=value`; given is whether an
\* argument follows `--sort`.  The result is the exit code ("none" while the
\* program goes on) and sort_mode_key.
ParseSortArg(form, given, value) ==
    LET usage == [exit |-> "1", sort_mode_key |-> "name"]
        normalized == _normalize_sort_mode(value)
    IN  IF form = "separate" /\ ~given THEN usage
        ELSE IF form = "equals" /\ value = <<>> THEN usage
        ELSE IF normalized \notin DOMAIN SORT_MODE_LOOKUP THEN usage
        ELSE [exit |-> "none", sort_mode_key |-> SORT_MODE_LOOKUP[normalized]]

\* str.upper(), used to vary the case of the values tried.
UpperChar(c) ==
    IF \E i \in 1 .. Len(LowerLetters) : LowerLetters[i] = c
    THEN Letters[CHOOSE i \in 1 .. Len(LowerLetters) : LowerLetters[i] = c]
    ELSE IF \E i \in 1 .. Len(CyrillicLower) : CyrillicLower[i] = c
    THEN CyrillicUpper[CHOOSE i \in 1 .. Len(CyrillicLower) : CyrillicLower[i] = c]
    ELSE c

UpperText(text) == [i \in 1 .. Len(text) |-> UpperChar(text[i])]

\* A character that is neither a letter nor a digit.
IsPunctuation(c) ==
    c \in {" ", "!", "(", ")", ",", "-", ".", "=", "_", "U+2192"}

IsNotPunctuation(c) == ~IsPunctuation(c)

\* The values tried for --sort: every key and every label as written, in
\* capitals, in small letters, with '-' written as '_', without punctuation;
\* and values that name no mode.
SortValues ==
    LET written == {SORT_MODE_VARIANTS[i].text : i \in 1 .. Len(SORT_MODE_VARIANTS)}
                   \cup
                   {SORT_MODE_VARIANTS[i].label : i \in 1 .. Len(SORT_MODE_VARIANTS)}
    IN  written
        \cup {UpperText(w) : w \in written}
        \cup {Lower(w) : w \in written}
        \cup {[i \in 1 .. Len(w) |-> IF w[i] = "-" THEN "_" ELSE w[i]] : w \in written}
        \cup {SelectSeq(w, IsNotPunctuation) : w \in written}
        \cup {<<>>, <<"-", "-", "-">>, <<"!", "!">>, <<"b", "o", "g", "u", "s">>,
              <<"n", "a", "m">>, <<"U+043D", "U+0456">>,
              <<"s", "i", "z", "e", "r">>}

SortArgInit ==
    /\ SessionIdle
    /\ \E form \in {"separate", "equals"}, given \in BOOLEAN, value \in SortValues :
           /\ given \/ (form = "separate" /\ value = <<>>)
           /\ calc = [op |-> "sortarg", form |-> form, given |-> given,
                      value |-> value, exit |-> "none",
                      sort_mode_key |-> "name", done |-> FALSE]

\* The argument loop meets --sort.
SortArgParse ==
    /\ calc.op = "sortarg"
    /\ ~calc.done
    /\ LET r == ParseSortArg(calc.form, calc.given, calc.value)
       IN  calc' = [calc EXCEPT !.exit = r.exit,
                                !.sort_mode_key = r.sort_mode_key,
                                !.done = TRUE]
    /\ UNCHANGED sessionVars

SortArgNext ==
    SortArgParse

SortArgSpec == SortArgInit /\ [][SortArgNext]_vars

\* ------------------------------------------------------ hotkey assignment
\* The constructor is given n destination directories, named 1 .. n here.
HotkeyInit ==
    /\ SessionIdle
    /\ \E n \in 0 .. MaxDestinations + 2 :
           calc = [op |-> "hotkeys", n |-> n, destination_options |-> <<>>,
                   made |-> 0, key_to_destination |-> <<>>,
                   status |-> "start"]

\* The test on the number of destinations before the loop.
HotkeyCheckCount ==
    /\ calc.op = "hotkeys"
    /\ calc.status = "start"
    /\ calc' = [calc EXCEPT !.status = IF calc.n < 2 THEN "ValueError: too few"
                                        ELSE "loop"]
    /\ UNCHANGED sessionVars

\* One round of the loop over the destinations: the hotkey, the option, the
\* directory.
HotkeyAssign ==
    /\ calc.op = "hotkeys"
    /\ calc.status = "loop"
    /\ Len(calc.destination_options) < calc.n
    /\ LET index == Len(calc.destination_options)
           key == _generate_hotkey(index)
       IN  calc' = IF key = "ValueError"
                   THEN [calc EXCEPT !.status = "ValueError: too many"]
                   ELSE [calc EXCEPT
                             !.destination_options =
                                 Append(@, [key |-> key, dest |-> index + 1]),
                             !.made = @ + 1]
    /\ UNCHANGED sessionVars

\* After the loop: the key-to-destination dict.
HotkeyBuildMap ==
    /\ calc.op = "hotkeys"
    /\ calc.status = "loop"
    /\ Len(calc.destination_options) = calc.n
    /\ LET opts == calc.destination_options
       IN  calc' = [calc EXCEPT
                        !.key_to_destination =
                            [k \in {opts[i].key : i \in 1 .. Len(opts)} |->
                                opts[CHOOSE i \in 1 .. Len(opts) :
                                         /\ opts[i].key = k
                                         /\ \A j \in i + 1 .. Len(opts) :
                                                opts[j].key # k].dest],
                        !.status = "constructed"]
    /\ UNCHANGED sessionVars

HotkeyNext ==
    \/ HotkeyCheckCount
    \/ HotkeyAssign
    \/ HotkeyBuildMap

HotkeySpec == HotkeyInit /\ [][HotkeyNext]_vars

\* -------------------------------------------------------------- transfer
\* A path is the sequence of its components; a file system maps each path
\* that exists to "dir" or, for a file, to the name of its content.
Parent(path) == SubSeq(path, 1, Len(path) - 1)

Basename(path) == path[Len(path)]

Exists(fs, path) == path \in DOMAIN fs

IsDir(fs, path) == Exists(fs, path) /\ fs[path] = "dir"

IsFile(fs, path) == Exists(fs, path) /\ fs[path] # "dir"

FsPut(fs, path, node) ==
    [q \in DOMAIN fs \cup {path} |-> IF q = path THEN node ELSE fs[q]]

FsRemove(fs, path) ==
    [q \in DOMAIN fs \ {path} |-> fs[q]]

\* os.makedirs(name, exist_ok=True): the missing directories are made from
\* the top down; a file in the way raises.
RECURSIVE makedirs(_, _)
makedirs(fs, name) ==
    IF IsDir(fs, name) THEN [raised |-> FALSE, fs |-> fs]
    ELSE IF Exists(fs, name) \/ Len(name) <= 1 THEN [raised |-> TRUE, fs |-> fs]
    ELSE LET up == makedirs(fs, Parent(name))
         IN  IF up.raised THEN up
             ELSE [raised |-> FALSE, fs |-> FsPut(up.fs, name, "dir")]

\* os.rename(src, dst) for a file src.
rename(fs, src, dst) ==
    IF ~IsFile(fs, src) \/ IsDir(fs, dst) \/ ~IsDir(fs, Parent(dst))
    THEN [raised |-> TRUE, fs |-> fs]
    ELSE IF src = dst THEN [raised |-> FALSE, fs |-> fs]
    ELSE [raised |-> FALSE, fs |-> FsPut(FsRemove(fs, src), dst, fs[src])]

\* shutil.copy2(src, dst): into dst when dst is a directory; the same file
\* on both sides raises SameFileError.
copy2(fs, src, dst) ==
    LET to == IF IsDir(fs, dst) THEN dst \o <<Basename(src)>> ELSE dst
    IN  IF \/ ~IsFile(fs, src)
           \/ to = src
           \/ IsDir(fs, to)
           \/ ~IsDir(fs, Parent(to))
        THEN [raised |-> TRUE, fs |-> fs]
        ELSE [raised |-> FALSE, fs |-> FsPut(fs, to, fs[src])]

\* shutil.move(src, dst): into dst when dst is a directory, unless the name
\* is taken there.
move(fs, src, dst) ==
    IF IsDir(fs, dst)
    THEN LET real_dst == dst \o <<Basename(src)>>
         IN  IF Exists(fs, real_dst) THEN [raised |-> TRUE, fs |-> fs]
             ELSE rename(fs, src, real_dst)
    ELSE rename(fs, src, dst)

\* The file operations of _move_photo(source_path, destination_base_dir);
\* relative_path is source_path relative to source_dir.  ok is whether the
\* success message is shown.
TransferFile(fs, transfer_mode, source_dir, relative_path, destination_base_dir) ==
    LET source_path == source_dir \o relative_path
        destination_path == destination_base_dir \o relative_path
        destination_dir == Parent(destination_path)
        made == makedirs(fs, destination_dir)
        r == IF made.raised THEN made
             ELSE IF transfer_mode = "copy"
                  THEN copy2(made.fs, source_path, destination_path)
                  ELSE move(made.fs, source_path, destination_path)
    IN  [ok |-> ~r.raised, fs |-> r.fs]

SourceRoot == <<"src">>

\* Relative paths of the entry transferred, down to MaxRelDepth components.
RelPaths ==
    {[i \in 1 .. d |-> IF i = d THEN "c.jpg" ELSE "a"] : d \in 1 .. MaxRelDepth}

\* The destination roots tried: a directory of its own, and the source
\* directory itself given as a destination.
DestRoots == {<<"D">>, SourceRoot}

\* The paths from a root down to root/relative_path/basename.
Chain(root, relative_path) ==
    [i \in 1 .. Len(relative_path) + 1 |->
        IF i <= Len(relative_path)
        THEN root \o SubSeq(relative_path, 1, i)
        ELSE root \o relative_path \o <<Basename(relative_path)>>]

\* The source tree holding the entry (content "new") when present, with or
\* without another file o.jpg.
SourceTree(relative_path, present, other) ==
    LET dirs == {SourceRoot \o SubSeq(relative_path, 1, i) :
                    i \in 0 .. Len(relative_path) - 1}
        file == {SourceRoot \o relative_path : b \in {present} \ {FALSE}}
        more == {SourceRoot \o <<"o.jpg">> : b \in {other} \ {FALSE}}
    IN  [q \in dirs \cup file \cup more |->
            IF q \in dirs THEN "dir" ELSE IF q \in file THEN "new" ELSE "other"]

\* What is under the destination root beforehand: the first `dirs` paths of
\* the chain are directories, the next is a file when `next` says so, the
\* file o.jpg is there or not.
DestTree(root, relative_path, dirs, next, other) ==
    LET chain == Chain(root, relative_path)
        ds == {root} \cup {chain[i] : i \in 1 .. dirs}
        file == {chain[i] : i \in {dirs + 1} \cap (IF next THEN 1 .. Len(chain) ELSE {})}
        more == {root \o <<"o.jpg">> : b \in {other} \ {FALSE}}
    IN  [q \in ds \cup file \cup more |->
            IF q \in ds THEN "dir" ELSE IF q \in file THEN "old" ELSE "other"]

\* The union of two trees with no path in common.
Merge(f, g) ==
    [q \in DOMAIN f \cup DOMAIN g |-> IF q \in DOMAIN f THEN f[q] ELSE g[q]]

TransferInit ==
    /\ SessionIdle
    /\ \E mode \in {"move", "copy"}, rel \in RelPaths, root \in DestRoots,
          present \in BOOLEAN, other \in BOOLEAN :
           LET src == SourceTree(rel, present, other)
           IN  \E before \in
                   IF root = SourceRoot THEN {src}
                   ELSE {Merge(src, DestTree(root, rel, k, n, o)) :
                            k \in 0 .. Len(rel) + 1, n \in BOOLEAN, o \in BOOLEAN} :
                   calc = [op |-> "transfer", transfer_mode |-> mode,
                           relative_path |-> rel, destination_base_dir |-> root,
                           before |-> before, fs |-> before,
                           ok |-> FALSE, done |-> FALSE]

\* _move_photo runs on the entry.
TransferRun ==
    /\ calc.op = "transfer"
    /\ ~calc.done
    /\ LET r == TransferFile(calc.fs, calc.transfer_mode, SourceRoot,
                             calc.relative_path, calc.destination_base_dir)
       IN  calc' = [calc EXCEPT !.fs = r.fs, !.ok = r.ok, !.done = TRUE]
    /\ UNCHANGED sessionVars

TransferNext ==
    TransferRun

TransferSpec == TransferInit /\ [][TransferNext]_vars

\* ------------------------------------------------- a session on a tree
\* The session in move mode together with the files it moves: calc holds the
\* file system and, for each entry, the key the operator pressed while it was
\* displayed and whether the transfer was reported as done.
\* Entry i of the sequence is c.jpg, i - 1 directories below the source root.
EntryRel(i) ==
    [j \in 1 .. i |-> IF j = i THEN "c.jpg" ELSE "a"]

\* The content of entry i.
Content(i) == Digits[i]

\* The directory of destination k, named after its hotkey.
DestRoot(k) == <<Hotkeys[k]>>

\* The source with its entries and the destination directories __init__ has
\* made; obstacle: a directory named c.jpg is in destination 1 beforehand.
SortingTree(n, dests, obstacle) ==
    LET sdirs == {SourceRoot \o SubSeq(EntryRel(n), 1, j) : j \in 0 .. n - 1}
        files == {SourceRoot \o EntryRel(i) : i \in 1 .. n}
        ddirs == {DestRoot(k) : k \in 1 .. dests} \cup
                 {DestRoot(1) \o EntryRel(1) : b \in {obstacle} \ {FALSE}}
    IN  [q \in {SourceRoot} \cup sdirs \cup files \cup ddirs |->
            IF q \in files THEN Content(Len(q) - 1) ELSE "dir"]

NoDecision == [key |-> "", ok |-> FALSE]

SortingInit ==
    /\ SessionInit
    /\ \E obstacle \in BOOLEAN :
           calc = [op |-> "sorting",
                   fs |-> SortingTree(Len(photo_files), numDest, obstacle),
                   decision |-> [i \in 1 .. Len(photo_files) |-> NoDecision]]

\* A <Key> event while an entry is displayed: on_key_press, the transfer
\* done on the tree.
SortingKey ==
    /\ ~destroyed
    /\ calc.op = "sorting"
    /\ current_photo_index >= 0
    /\ \E ev \in KeyEvents :
           LET branch == KeyBranch(St, ev[1], ev[2])
               key == Upper(ev[1])
               entry == CurrentEntry(St)
               t == IF branch = "route"
                    THEN TransferFile(calc.fs, "move", SourceRoot, EntryRel(entry),
                                      DestRoot(key_to_destination(key)))
                    ELSE [ok |-> TRUE, fs |-> calc.fs]
           IN  \E c \in Choices(St, branch) :
                   /\ c.ok = t.ok
                   /\ CommitSession(on_key_press(St, ev[1], ev[2], c.ok, c.raises,
                                                 c.outcome, c.playOk))
                   /\ calc' = IF branch \in {"route", "skip"}
                              THEN [calc EXCEPT !.fs = t.fs,
                                                !.decision[entry] =
                                                    [key |-> key, ok |-> t.ok]]
                              ELSE calc

SortingNext ==
    \/ InitialLoad
    \/ OnResize
    \/ SortingKey
    \/ PollTimer
    \/ SeekTimer
    \/ DestroyTimer
    \/ BackendReportLength
    \/ BackendTick
    \/ BackendEnd

SortingSpec == SortingInit /\ [][SortingNext]_vars

\* ---------------------------------------------------------------- claims
\* An entry is current: 0 <= cursor < length.
EntryIsCurrent ==
    current_photo_index \in 0 .. Len(photo_files) - 1

\* The step is the key handler run on event ev with the choices c.
KeyStep(ev, c) ==
    /\ ~destroyed
    /\ Commit(on_key_press(St, ev[1], ev[2], c.ok, c.raises, c.outcome, c.playOk))

\* The step is the resize handler run for the main window with the choices c.
ResizeStep(c) ==
    /\ ~destroyed
    /\ Commit(on_resize(St, TRUE, c.raises, c.outcome))

\* The step is the firing of the i-th pending deferred apply_seek.
SeekTimerStep(i) ==
    /\ ~destroyed
    /\ CanFire(pendingSeeks, i)
    /\ Commit(apply_seek([St EXCEPT !.pendingSeeks = RemoveAt(pendingSeeks, i)],
                         pendingSeeks[i].target))

NoTransferMade ==
    UNCHANGED <<transferCount, lastTransfer>>

\* C1: in every reachable state the cursor satisfies
\* -1 <= current_photo_index <= len(photo_files).
C1_CursorInRange ==
    /\ -1 <= current_photo_index
    /\ current_photo_index <= Len(photo_files)

\* C2: a routing key pressed while an entry is current makes exactly one
\* transfer attempt, of that entry to the destination bound to the key, and
\* then advances the cursor by exactly one, whatever the transfer's outcome;
\* the session stays open.
C2_RoutingKeyTransfersOnceAndAdvancesByOne ==
    [][\A ev \in KeyEvents : \A c \in Choices(St, "route") :
          (/\ EntryIsCurrent
           /\ KeyBranch(St, ev[1], ev[2]) = "route"
           /\ KeyStep(ev, c))
          => /\ transferCount' = transferCount + 1
             /\ lastTransfer' = [entry |-> current_photo_index + 1,
                                 dest |-> key_to_destination(Upper(ev[1])),
                                 ok |-> c.ok]
             /\ current_photo_index' = current_photo_index + 1
             /\ ~destroyed']_vars

\* C3: for every destination count, the skip key 'S' pressed while an entry is
\* current advances the cursor by one and makes no transfer.
C3_SkipKeyAdvancesWithoutTransfer ==
    [][\A ev \in {e \in KeyEvents : Upper(e[1]) = "S"} :
          \A c \in Choices(St, KeyBranch(St, ev[1], ev[2])) :
              (EntryIsCurrent /\ KeyStep(ev, c))
              => /\ current_photo_index' = current_photo_index + 1
                 /\ NoTransferMade]_vars

\* C4: for every destination count, the quit key 'Q' pressed while an entry is
\* current leaves no live handle and no pending poll, closes the session at
\* once, makes no transfer and shows no other entry.
C4_QuitKeyStopsPlaybackAndCloses ==
    [][\A ev \in {e \in KeyEvents : Upper(e[1]) = "Q"} :
          \A c \in Choices(St, KeyBranch(St, ev[1], ev[2])) :
              (EntryIsCurrent /\ KeyStep(ev, c))
              => /\ destroyed'
                 /\ vlc_player' = NoPlayer
                 /\ video_status_job' # "pending"
                 /\ orphanPolls' = 0
                 /\ NoTransferMade
                 /\ current_photo_index' = current_photo_index]_vars

\* C5: a resize notification received while an entry is current leaves the
\* cursor where it was and makes no transfer, also when the reload fails.
C5_ResizeReloadsSameEntry ==
    [][\A c \in LoadChoices(current_photo_index) :
          (EntryIsCurrent /\ ResizeStep(c))
          => /\ current_photo_index' = current_photo_index
             /\ NoTransferMade]_vars

\* C6: an unrecognized key, and a media-control key (space, left, right) on a
\* video entry, leave the cursor unchanged and make no transfer; an
\* unrecognized key also leaves the playback session (handle, paused flag,
\* poll timer) unchanged.
C6_OtherKeysDoNotAdvance ==
    \A ev \in KeyEvents :
        LET branch == KeyBranch(St, ev[1], ev[2])
        IN  (~destroyed /\ branch \in {"unknown", "pause", "seek_left", "seek_right"})
            => \A c \in Choices(St, branch) :
                   LET r == on_key_press(St, ev[1], ev[2], c.ok, c.raises,
                                         c.outcome, c.playOk)
                   IN  /\ r.current_photo_index = current_photo_index
                       /\ r.transferCount = transferCount
                       /\ r.lastTransfer = lastTransfer
                       /\ ~r.destroyed
                       /\ branch = "unknown"
                          => /\ r.vlc_player = vlc_player
                             /\ r.video_paused = video_paused
                             /\ r.video_status_job = video_status_job
                             /\ r.video_duration_ms = video_duration_ms
                             /\ r.orphanPolls = orphanPolls
                             /\ r.pendingSeeks = pendingSeeks

\* A media-control key has acted on a video entry: playback was paused by the
\* space key and the entry is still the current one.
C6_Witness ==
    /\ EntryIsCurrent
    /\ current_media_type = "Video"
    /\ vlc_player.state = "Paused"
    /\ video_paused

\* Backend players started and not stopped.
LivePlayers ==
    orphanPlayers + (IF vlc_player.state \in LiveStates THEN 1 ELSE 0)

C8_StopLeavesNoTimerNoHandle ==
    /\ vlc_player.state = "None"
       => /\ video_status_job # "pending"
          /\ orphanPolls = 0
          /\ pendingSeeks = <<>>
          /\ video_duration_ms = 0
          /\ ~video_paused
    /\ _stop_video_playback(_stop_video_playback(St)) = _stop_video_playback(St)

\* C9: a timer callback of a playback session that fires after that session
\* was torn down changes nothing, even when another session has started.
C9_StaleCallbackIsNoOp ==
    [][\A i \in 1 .. Len(pendingSeeks) :
          (pendingSeeks[i].stale /\ SeekTimerStep(i))
          => UNCHANGED <<current_photo_index, current_media_type, vlc_player,
                         video_status_job, video_duration_ms, video_paused,
                         orphanPlayers, orphanPolls, transferCount,
                         lastTransfer, destroyed>>]_vars

\* C10: a seek on an ended or stopped backend whose target is below the known
\* duration restarts playback before any position is set, and once the
\* deferred position is applied the backend is paused again if the paused flag
\* was set before the seek.
C10_RestartReappliesPause ==
    [][/\ \A ev \in KeyEvents : \A c \in Choices(St, "seek_left") :
              (/\ KeyBranch(St, ev[1], ev[2]) \in {"seek_left", "seek_right"}
               /\ vlc_player.state \in {"Ended", "Stopped"}
               /\ vlc_player.length > 0
               /\ SeekTarget(vlc_player.time, vlc_player.length,
                             IF KeyBranch(St, ev[1], ev[2]) = "seek_left"
                             THEN -VIDEO_SCRUB_STEP_MS ELSE VIDEO_SCRUB_STEP_MS)
                      < vlc_player.length
               /\ KeyStep(ev, c))
              => /\ Len(pendingSeeks') = Len(pendingSeeks) + 1
                 /\ c.playOk => vlc_player' =
                        [state |-> "Playing", time |-> 0, length |-> 0]
       /\ \A i \in 1 .. Len(pendingSeeks) :
              (/\ ~pendingSeeks[i].stale
               /\ pendingSeeks[i].pausedBefore
               /\ vlc_player.state \in {"Playing", "Paused"}
               /\ SeekTimerStep(i))
              => vlc_player'.state = "Paused"]_vars

\* C11: for every position, delta and length the seek target is
\* min(max(current + delta, 0), length) when the length is known (> 0) and
\* max(0, current + delta) when it is not; it is never negative and never
\* beyond a known length.
C11_SeekTargetClamped ==
    (calc.op = "seek" /\ calc.done)
    => LET moved == calc.current + calc.delta_ms
       IN  /\ calc.length > 0
              => calc.target = Min(Max(moved, 0), calc.length)
           /\ ~(calc.length > 0) => calc.target = Max(0, moved)
           /\ calc.target >= 0
           /\ calc.length > 0 => calc.target <= calc.length

\* 58000 + 5000 with a known length of 60000 has given 60000.
C11_Witness ==
    /\ calc.op = "seek"
    /\ calc.done
    /\ calc.current = 58000
    /\ calc.delta_ms = VIDEO_SCRUB_STEP_MS
    /\ calc.length = 60000
    /\ calc.target = 60000
\* The place of a file in a list of distinct files.
PlaceIn(list, f) == CHOOSE i \in 1 .. Len(list) : list[i] = f

\* C12: under each of the 10 sort modes the sorted sequence is a permutation
\* of the discovered list, ordered by the mode's key (ascending, or
\* descending for the -rev modes), and any two entries with equal keys keep
\* their discovery order in both directions.
C12_SortIsStablePermutation ==
    (calc.op = "sort" /\ calc.done)
    => LET out == calc.sorted_files
           rev == SORT_MODE_INFO[calc.mode].reverse
       IN  /\ ~calc.raised
           /\ Len(out) = Len(calc.files)
           /\ {out[i] : i \in 1 .. Len(out)} =
              {calc.files[i] : i \in 1 .. Len(calc.files)}
           /\ \A i, j \in 1 .. Len(out) :
                  i < j =>
                      LET c == KeyCmp(calc.mode, out[i], out[j])
                      IN  /\ c \in (IF rev THEN {"gt", "eq"} ELSE {"lt", "eq"})
                          /\ c = "eq" => PlaceIn(calc.files, out[i]) <
                                         PlaceIn(calc.files, out[j])

\* The file img<digits>.jpg of the pool, in directory a.
NumberedImage(digits) ==
    CHOOSE f \in SortPool :
        /\ f.dir = "a"
        /\ f.name = <<"i", "m", "g">> \o digits \o <<".", "j", "p", "g">>

\* C20: the natural key of a base name is its alternating non-digit and digit
\* runs, digit runs as integers and the others case-folded;
\* [img2.jpg, img10.jpg, img1.jpg] sorts to [img1.jpg, img2.jpg, img10.jpg]
\* under natural and to [img10.jpg, img2.jpg, img1.jpg] under natural-rev;
\* and the keys of any two file names are computed and compared without error.
C20_NaturalOrder ==
    LET img1 == NumberedImage(<<"1">>)
        img2 == NumberedImage(<<"2">>)
        img10 == NumberedImage(<<"1", "0">>)
    IN  (calc.op = "sort" /\ calc.done /\
         SORT_MODE_INFO[calc.mode].type = "natural")
        => /\ ~calc.raised
           /\ \A i, j \in 1 .. Len(calc.files) :
                  KeyCmp(calc.mode, calc.files[i], calc.files[j]) # "TypeError"
           /\ _natural_key(img10.name) =
                  <<[kind |-> "str", n |-> 0, s |-> <<"i", "m", "g">>],
                    [kind |-> "int", n |-> 10, s |-> <<>>],
                    [kind |-> "str", n |-> 0, s |-> <<".", "j", "p", "g">>]>>
           /\ calc.files = <<img2, img10, img1>>
              => calc.sorted_files =
                     IF SORT_MODE_INFO[calc.mode].reverse
                     THEN <<img10, img2, img1>>
                     ELSE <<img1, img2, img10>>
\* A value is actually handed to the --sort branch.
SortValuePresent ==
    /\ calc.given
    /\ ~(calc.form = "equals" /\ calc.value = <<>>)

\* Two texts are the same up to case and punctuation.
SameUpToCaseAndPunctuation(a, b) ==
    SelectSeq(Lower(a), IsNotPunctuation) = SelectSeq(Lower(b), IsNotPunctuation)

\* C13: each of the 10 mode keys resolves to its own mode, and a value equal
\* to a mode's display label up to case and punctuation resolves to that mode
\* (and so to no other).
C13_SortValueResolvesToItsMode ==
    (calc.op = "sortarg" /\ calc.done /\ SortValuePresent)
    => \A i \in 1 .. Len(SORT_MODE_VARIANTS) :
           LET v == SORT_MODE_VARIANTS[i]
           IN  (\/ calc.value = v.text
                \/ SameUpToCaseAndPunctuation(calc.value, v.label))
               => /\ calc.exit = "none"
                  /\ calc.sort_mode_key = v.key

\* C14: a --sort value that is no mode key and no display label, not even up
\* to case and punctuation, is rejected: exit code 1 and no sort mode selected.
C14_UnknownSortValueRejected ==
    (/\ calc.op = "sortarg"
     /\ calc.done
     /\ SortValuePresent
     /\ \A i \in 1 .. Len(SORT_MODE_VARIANTS) :
            /\ ~SameUpToCaseAndPunctuation(calc.value, SORT_MODE_VARIANTS[i].text)
            /\ ~SameUpToCaseAndPunctuation(calc.value, SORT_MODE_VARIANTS[i].label))
    => /\ calc.exit = "1"
       /\ calc.sort_mode_key = "name"
\* The characters '1'..'9', 'A'..'Z' in order.
HotkeyAlphabet ==
    <<"1", "2", "3", "4", "5", "6", "7", "8", "9", "A", "B", "C", "D", "E",
      "F", "G", "H", "I", "J", "K", "L", "M", "N", "O", "P", "Q", "R", "S",
      "T", "U", "V", "W", "X", "Y", "Z">>

\* C15: with 2 <= N <= 35 destinations the construction assigns exactly the
\* first N characters of '1'..'9','A'..'Z' in destination order, all
\* distinct, and the key-to-destination map has N entries; with N = 36 it
\* fails with the too-many-destinations error.
C15_HotkeysAssignedInOrder ==
    calc.op = "hotkeys"
    => LET opts == calc.destination_options
       IN  /\ calc.status = "constructed"
              => /\ calc.n \in 2 .. 35
                 /\ Len(opts) = calc.n
                 /\ \A i \in 1 .. calc.n :
                        /\ opts[i].key = HotkeyAlphabet[i]
                        /\ opts[i].dest = i
                        /\ calc.key_to_destination[HotkeyAlphabet[i]] = i
                 /\ \A i, j \in 1 .. calc.n : i # j => opts[i].key # opts[j].key
                 /\ Cardinality(DOMAIN calc.key_to_destination) = calc.n
           /\ calc.status = "ValueError: too many" => calc.n > 35
           /\ (calc.n \in 2 .. 35 /\ Len(opts) = calc.n)
              => calc.status \in {"loop", "constructed"}
           /\ calc.n = 36 => calc.status # "constructed"
           /\ (calc.n = 36 /\ Len(opts) = 35 /\ calc.status # "loop")
              => calc.status = "ValueError: too many"

\* 35 destinations have been given their hotkeys, the last one 'Z'.
C15_Witness ==
    /\ calc.op = "hotkeys"
    /\ calc.status = "constructed"
    /\ calc.n = 35
    /\ calc.destination_options[35].key = "Z"
    /\ calc.key_to_destination["Z"] = 35
\* C16: a successful transfer of source/<rel> to the destination root D puts
\* the file at exactly D/<rel>; after a move the file is gone from its
\* original place, after a copy it is in both places with the same content;
\* nothing else changes but the intermediate directories of D/<rel>.
C16_TransferPlacesFileAtRelativePath ==
    (calc.op = "transfer" /\ calc.done /\ calc.ok)
    => LET source_path == SourceRoot \o calc.relative_path
           target == calc.destination_base_dir \o calc.relative_path
           between == {calc.destination_base_dir \o SubSeq(calc.relative_path, 1, i) :
                          i \in 0 .. Len(calc.relative_path) - 1}
           moved == calc.transfer_mode = "move"
       IN  /\ IsFile(calc.fs, target)
           /\ calc.fs[target] = calc.before[source_path]
           /\ moved => ~Exists(calc.fs, source_path)
           /\ ~moved => /\ IsFile(calc.fs, source_path)
                        /\ calc.fs[source_path] = calc.before[source_path]
           /\ \A q \in between : IsDir(calc.fs, q)
           /\ \A q \in (DOMAIN calc.fs \cup DOMAIN calc.before) \
                       ({target} \cup between \cup
                        (IF moved THEN {source_path} ELSE {})) :
                  /\ q \in DOMAIN calc.fs
                  /\ q \in DOMAIN calc.before
                  /\ calc.fs[q] = calc.before[q]
\* C17: in move mode, once the cursor is at the end of a non-empty sequence,
\* every entry for which the skip key was pressed is still in the source and
\* nowhere else, every entry for which a routing key was pressed and the
\* transfer reported done is at its relative path under the destination of
\* that key and nowhere else, and the shutdown is scheduled or has happened.
C17_EntriesEndWhereDecided ==
    (calc.op = "sorting" /\ Len(photo_files) > 0
       /\ current_photo_index >= Len(photo_files))
    => /\ \A i \in 1 .. Len(photo_files) :
              LET d == calc.decision[i]
                  at == {q \in DOMAIN calc.fs : calc.fs[q] = Content(i)}
              IN  CASE d.key = "S" -> at = {SourceRoot \o EntryRel(i)}
                    [] d.key # "" /\ d.ok ->
                           at = {DestRoot(key_to_destination(d.key)) \o EntryRel(i)}
                    [] OTHER -> TRUE
       /\ destroyed \/ destroyTimers > 0
\* The entry under the cursor is a video and the window is open.
VideoEntryCurrent ==
    /\ ~destroyed
    /\ current_photo_index \in 0 .. Len(photo_files) - 1
    /\ photo_files[current_photo_index + 1] = "Video"

\* What a handler's result says about the cursor, the transfers and the
\* window.
CursorAndTransfers(r) ==
    [current_photo_index |-> r.current_photo_index,
     transferCount |-> r.transferCount,
     lastTransfer |-> r.lastTransfer,
     destroyed |-> r.destroyed]

\* The cursor and transfer effect of a routing, skip or quit key, from the
\* cursor, the key and what the environment decided alone.
KeyEffect(branch, key, c) ==
    [current_photo_index |->
         IF branch = "quit" THEN current_photo_index
         ELSE current_photo_index + 1 + c.raises,
     transferCount |-> transferCount + (IF branch = "route" THEN 1 ELSE 0),
     lastTransfer |->
         IF branch = "route"
         THEN [entry |-> current_photo_index + 1,
               dest |-> key_to_destination(key), ok |-> c.ok]
         ELSE lastTransfer,
     destroyed |-> branch = "quit"]

AtEnd ==
    /\ Len(photo_files) > 0
    /\ current_photo_index >= Len(photo_files)

\* No key and no resize event changes the state.
EventsChangeNothing ==
    /\ \A ev \in KeyEvents :
           \A c \in Choices(St, KeyBranch(St, ev[1], ev[2])) :
               on_key_press(St, ev[1], ev[2], c.ok, c.raises, c.outcome,
                            c.playOk) = St
    /\ \A isMaster \in BOOLEAN :
           \A c \in IF isMaster /\ current_photo_index >= 0
                     THEN LoadChoices(current_photo_index) ELSE {NoChoice} :
               on_resize(St, isMaster, c.raises, c.outcome) = St

C21_TransfersActOnDisplayedEntry ==
    ~destroyed
    => \A ev \in KeyEvents :
           LET branch == KeyBranch(St, ev[1], ev[2])
           IN  /\ branch = "route" => EntryIsCurrent
               /\ ~EntryIsCurrent
                  => /\ branch # "IndexError"
                     /\ \A c \in Choices(St, branch) :
                            LET r == on_key_press(St, ev[1], ev[2], c.ok, c.raises,
                                                  c.outcome, c.playOk)
                            IN  /\ r.transferCount = transferCount
                                /\ r.lastTransfer = lastTransfer

\* C22: the cursor moves only by one, and only in the handler of a routing or
\* skip key received while an entry is displayed; the initial load takes it
\* from -1 to 0, and no resize, other key or load failure moves it.
C22_NoEntryPassedOver ==
    ~destroyed
    => /\ initTimer
          => \A c \in LoadChoices(current_photo_index + 1) :
                 /\ current_photo_index = -1
                 /\ load_next_photo([St EXCEPT !.initTimer = FALSE],
                                    c.raises, c.outcome).current_photo_index = 0
       /\ \A c \in IF current_photo_index >= 0
                    THEN LoadChoices(current_photo_index) ELSE {NoChoice} :
              on_resize(St, TRUE, c.raises, c.outcome).current_photo_index
                  = current_photo_index
       /\ \A ev \in KeyEvents :
              LET branch == KeyBranch(St, ev[1], ev[2])
              IN  \A c \in Choices(St, branch) :
                      on_key_press(St, ev[1], ev[2], c.ok, c.raises, c.outcome,
                                   c.playOk).current_photo_index
                          = IF branch \in {"route", "skip"} /\ EntryIsCurrent
                            THEN current_photo_index + 1
                            ELSE current_photo_index

\* Poll timers pending: the one video_status_job names and those no field
\* names.
PendingPolls ==
    orphanPolls + (IF video_status_job = "pending" THEN 1 ELSE 0)

\* C23: while the window is open, between handlers a poll timer is pending exactly when the session
\* holds a playback handle, and never more than one is; a load that starts
\* playback leaves one pending, and a poll that fires while a handle is held
\* leaves one pending again.
C23_OnePollWhileHandleHeld ==
    ~destroyed
    => /\ PendingPolls <= 1
       /\ (PendingPolls = 1) <=> (vlc_player.state # "None")
       /\ video_status_job # "fired"
       /\ LET r == _play_video(St, TRUE)
          IN  /\ r.video_status_job = "pending"
              /\ r.orphanPolls = 0
       /\ video_status_job = "pending"
          => LET r == _update_video_status([St EXCEPT !.video_status_job = "fired"])
             IN  /\ r.video_status_job = "pending"
                 /\ r.orphanPolls = 0

\* A poll has fired on a live handle (it recorded the duration) and another
\* is pending.
C23_Witness ==
    /\ ~destroyed
    /\ vlc_player.state \in LiveStates
    /\ video_duration_ms = MediaLenMs
    /\ PendingPolls = 1

\* C24: while a player is held, the paused flag is set exactly when the
\* backend is paused, and a pause toggle on a backend that is neither playing
\* nor paused leaves the flag as it is.
C24_PausedFlagMatchesBackend ==
    (~destroyed /\ vlc_player.state # "None")
    => /\ video_paused <=> (vlc_player.state = "Paused")
       /\ vlc_player.state \notin {"Playing", "Paused"}
          => _toggle_video_pause(St).video_paused = video_paused

\* C25: when the construction fails with the too-many-destinations error, no
\* destination directory has been made.
C25_TooManyDestinationsFailsBeforeSideEffects ==
    (calc.op = "hotkeys" /\ calc.status = "ValueError: too many")
    => calc.made = 0

\* C26: no handler or timer callback leaves the cursor lower than it found
\* it, and a routing or skip key received while an entry is current leaves it
\* higher; the distance to the end, at most N when an entry is current,
\* therefore shrinks with each such key and never grows, so at most N of them
\* are handled before the end of the sequence.
C26_CursorNeverDecreases ==
    ~destroyed
    => /\ \A ev \in KeyEvents :
              LET branch == KeyBranch(St, ev[1], ev[2])
              IN  \A c \in Choices(St, branch) :
                      LET r == on_key_press(St, ev[1], ev[2], c.ok, c.raises,
                                            c.outcome, c.playOk)
                      IN  /\ r.current_photo_index >= current_photo_index
                          /\ (EntryIsCurrent /\ branch \in {"route", "skip"})
                             => /\ r.current_photo_index > current_photo_index
                                /\ Len(photo_files) - r.current_photo_index
                                       < Len(photo_files) - current_photo_index
       /\ \A isMaster \in BOOLEAN :
              \A c \in IF isMaster /\ current_photo_index >= 0
                        THEN LoadChoices(current_photo_index) ELSE {NoChoice} :
                  on_resize(St, isMaster, c.raises, c.outcome).current_photo_index
                      >= current_photo_index
       /\ initTimer
          => \A c \in LoadChoices(current_photo_index + 1) :
                 load_next_photo([St EXCEPT !.initTimer = FALSE], c.raises,
                                 c.outcome).current_photo_index
                     >= current_photo_index
       /\ _update_video_status(St).current_photo_index = current_photo_index
       /\ \A i \in 1 .. Len(pendingSeeks) :
              apply_seek(St, pendingSeeks[i].target).current_photo_index
                  = current_photo_index
       /\ EntryIsCurrent
          => Len(photo_files) - current_photo_index \in 1 .. Len(photo_files)

\* MaxFiles entries, each routed by a key while it was displayed: the end is
\* reached with as many transfers as entries.
C26_Witness ==
    /\ ~destroyed
    /\ Len(photo_files) = MaxFiles
    /\ current_photo_index = Len(photo_files)
    /\ transferCount = Len(photo_files)
    /\ lastTransfer.entry = Len(photo_files)

\* C27: while a deferred apply_seek of the current playback session is
\* pending, a later seek that sets its position at once keeps that position:
\* the deferred callback of the earlier seek, firing afterwards, does not
\* change it.
C27_LaterSeekNotOverwritten ==
    (~destroyed /\ vlc_player.state # "None")
    => \A i \in 1 .. Len(pendingSeeks) :
           \A delta_ms \in {-VIDEO_SCRUB_STEP_MS, VIDEO_SCRUB_STEP_MS} :
               \A playOk \in BOOLEAN :
                   LET later == _seek_video(St, delta_ms, playOk)
                       fired == apply_seek(
                                    [later EXCEPT !.pendingSeeks =
                                                      RemoveAt(later.pendingSeeks, i)],
                                    pendingSeeks[i].target)
                   IN  (/\ ~pendingSeeks[i].stale
                        /\ CanFire(pendingSeeks, i)
                        /\ later.pendingSeeks = pendingSeeks)
                       => fired.vlc_player.time = later.vlc_player.time
====
